---------------------------- MODULE Spec2Model ----------------------------
(***************************************************************************)
(* A model of the dicom-volume slicing and interpolation engine:           *)
(*   src/src/interpolator.rs   Interpolator (isotropic dimensions,         *)
(*                             bilinear_interpolate)                       *)
(*   src/src/volume.rs         Volume (slicing, CPU image paths, the GPU   *)
(*                             request path and its lazy context)          *)
(*   src/src/gpu_interpolator.rs  GpuInterpolator (new, extract_slice)     *)
(*                                                                         *)
(* f32 values are modelled bit-exactly for the non-negative, normal range  *)
(* the program's call sites produce: a value is <<m, e>> standing for      *)
(* m * 2^e with 2^23 <= m < 2^24 (or <<0, 0>> for 0.0), and every          *)
(* arithmetic operator rounds to nearest, ties to even, as IEEE-754        *)
(* binary32 does.                                                          *)
(***************************************************************************)
EXTENDS Integers, Sequences, FiniteSets, TLC

-----------------------------------------------------------------------------
(* binary32 arithmetic (the f32 operations of interpolator.rs / volume.rs) *)

P12 == 2^12
P23 == 2^23
P24 == 2^24

F32Zero == <<0, 0>>

RECURSIVE BitLen(_)
BitLen(n) == IF n = 0 THEN 0 ELSE 1 + BitLen(n \div 2)

\* A wide exact intermediate: <<hi, lo, e, st>> is (hi * 2^24 + lo + f) * 2^e
\* with 0 <= hi, lo < 2^24 and f = 0 when st = 0, 0 < f < 1 when st = 1.
WideShr(w, k) ==
    IF k = 0 THEN w
    ELSE IF k >= 48 THEN
        <<0, 0, w[3] + k, IF w[1] # 0 \/ w[2] # 0 \/ w[4] = 1 THEN 1 ELSE 0>>
    ELSE IF k >= 24 THEN
        <<0, w[1] \div (2^(k - 24)), w[3] + k,
          IF (w[1] % (2^(k - 24))) # 0 \/ w[2] # 0 \/ w[4] = 1 THEN 1 ELSE 0>>
    ELSE
        <<w[1] \div (2^k),
          (w[1] % (2^k)) * (2^(24 - k)) + (w[2] \div (2^k)),
          w[3] + k,
          IF (w[2] % (2^k)) # 0 \/ w[4] = 1 THEN 1 ELSE 0>>

\* Exact left shift by 0 <= k <= 24 of a wide value whose hi part is 0.
WideShl(w, k) ==
    IF k = 0 THEN w
    ELSE IF k = 24 THEN <<w[2], 0, w[3] - 24, w[4]>>
    ELSE <<w[2] \div (2^(24 - k)), (w[2] % (2^(24 - k))) * (2^k), w[3] - k, w[4]>>

\* Round to nearest, ties to even, to a 24-bit significand.
RoundF32(w) ==
    LET hi == w[1]
        lo == w[2]
        len == IF hi = 0 THEN BitLen(lo) ELSE 24 + BitLen(hi)
    IN  IF len = 0 THEN F32Zero
        ELSE IF len <= 24 THEN <<lo * (2^(24 - len)), w[3] - (24 - len)>>
        ELSE
            LET s == len - 24
                q == IF s = 24 THEN hi ELSE hi * (2^(24 - s)) + (lo \div (2^s))
                rem == IF s = 24 THEN lo ELSE lo % (2^s)
                half == 2^(s - 1)
                up == \/ rem > half
                      \/ rem = half /\ (w[4] = 1 \/ q % 2 = 1)
                q2 == IF up THEN q + 1 ELSE q
            IN  IF q2 = P24 THEN <<P23, w[3] + s + 1>> ELSE <<q2, w[3] + s>>

F32FromNat(n) == RoundF32(<<0, n, 0, 0>>)

\* The exact 48-bit product of two 24-bit significands, by 12-bit limbs.
WideProduct(a, b) ==
    LET a1 == a[1] \div P12
        a0 == a[1] % P12
        b1 == b[1] \div P12
        b0 == b[1] % P12
        mid == a1 * b0 + a0 * b1
        low == (mid % P12) * P12 + a0 * b0
    IN  <<a1 * b1 + (mid \div P12) + (low \div P24), low % P24, a[2] + b[2], 0>>

F32Mul(a, b) ==
    IF a[1] = 0 \/ b[1] = 0 THEN F32Zero ELSE RoundF32(WideProduct(a, b))

RECURSIVE LongDiv(_, _, _, _)
\* k more quotient bits of r / d (r < d), appended to q: <<quotient, remainder>>.
LongDiv(q, r, d, k) ==
    IF k = 0 THEN <<q, r>>
    ELSE IF 2 * r >= d THEN LongDiv(2 * q + 1, 2 * r - d, d, k - 1)
    ELSE LongDiv(2 * q, 2 * r, d, k - 1)

F32Div(a, b) ==
    IF a[1] = 0 THEN F32Zero
    ELSE LET qr == LongDiv(a[1] \div b[1], a[1] % b[1], b[1], 26)
         IN  RoundF32(<<qr[1] \div P24, qr[1] % P24, a[2] - b[2] - 26,
                        IF qr[2] # 0 THEN 1 ELSE 0>>)

F32Less(a, b) ==
    IF b[1] = 0 THEN FALSE
    ELSE IF a[1] = 0 THEN TRUE
    ELSE a[2] < b[2] \/ (a[2] = b[2] /\ a[1] < b[1])

F32Min(a, b) == IF F32Less(b, a) THEN b ELSE a

\* a * b + c with one rounding (f32::mul_add), all operands >= 0.
F32MulAdd(a, b, c) ==
    IF a[1] = 0 \/ b[1] = 0 THEN c
    ELSE IF c[1] = 0 THEN F32Mul(a, b)
    ELSE
        LET p == WideProduct(a, b)
            topP == p[3] + 48
            topC == c[2] + 24
            base == (IF topP > topC THEN topP ELSE topC) + 1 - 48
            ps == WideShr(p, base - p[3])
            cw == <<0, c[1], c[2], 0>>
            cs == IF base >= c[2] THEN WideShr(cw, base - c[2])
                  ELSE WideShl(cw, c[2] - base)
            lo == ps[2] + cs[2]
        IN  RoundF32(<<ps[1] + cs[1] + (lo \div P24), lo % P24, base,
                       IF ps[4] = 1 \/ cs[4] = 1 THEN 1 ELSE 0>>)

\* a - b with one rounding, for a >= b >= 0.
F32Sub(a, b) ==
    IF b[1] = 0 THEN a
    ELSE
        LET base == a[2] - 24
            bw == <<0, b[1], b[2], 0>>
            bs == IF base >= b[2] THEN WideShr(bw, base - b[2])
                  ELSE WideShl(bw, b[2] - base)
            \* a is <<a[1], 0>> at base; a sticky subtrahend borrows one unit
            sub == bs[2] + bs[4]
            lo == IF sub = 0 THEN 0 ELSE P24 - sub
            hi == a[1] - bs[1] - (IF sub = 0 THEN 0 ELSE 1)
        IN  RoundF32(<<hi, lo, base, bs[4]>>)

\* f32::floor followed by `as usize` / `as u32` (truncation toward zero).
F32Trunc(a) ==
    IF a[1] = 0 THEN 0
    ELSE IF a[2] >= 0 THEN a[1] * (2^a[2])
    ELSE IF a[2] <= -24 THEN 0
    ELSE a[1] \div (2^(0 - a[2]))

\* `as u16` / `as u8` of a non-negative f32: truncation, saturating at max.
F32ToInt(a, max) == LET t == F32Trunc(a) IN IF t > max THEN max ELSE t

F32One == <<P23, -23>>

-----------------------------------------------------------------------------
(* Outcomes of a call *)

Idle == [kind |-> "Idle"]
\* the call unwound (index out of bounds in ndarray, attempt to subtract with overflow)
Panic == [kind |-> "Panic"]
\* Option::None
NoneValue == [kind |-> "None"]

Orientations == {"Axial", "Coronal", "Sagittal"}
Interpolations == {"None", "Bilinear"}

-----------------------------------------------------------------------------
(* interpolator.rs *)

IsoAxis(extent, axis_spacing, inv_min_spacing) ==
    F32Trunc(F32Mul(F32Mul(F32FromNat(extent), axis_spacing), inv_min_spacing))

\* spacing is <<x, y, z>>, original_dim is <<depth, height, width>>;
\* the result is <<new_z, new_y, new_x>>.
get_isotropic_dimensions(sp, original_dim) ==
    LET min_spacing == F32Min(F32Min(sp[1], sp[2]), sp[3])
        inv_min_spacing == F32Div(F32One, min_spacing)
        new_x == IsoAxis(original_dim[3], sp[1], inv_min_spacing)
        new_y == IsoAxis(original_dim[2], sp[2], inv_min_spacing)
        new_z == IsoAxis(original_dim[1], sp[3], inv_min_spacing)
    IN  <<new_z, new_y, new_x>>

Min(a, b) == IF a < b THEN a ELSE b
Max(a, b) == IF a > b THEN a ELSE b

\* bilinear_interpolate with the x weights exchanged: dx weighs the left
\* column and 1 - dx the right one.
bilinear_interpolate_weights_exchanged(slice, y, x) ==
    LET height == slice.height
        width == slice.width
        y0 == F32Trunc(y)
        x0 == F32Trunc(x)
        y1 == Min(y0 + 1, height - 1)
        x1 == Min(x0 + 1, width - 1)
        dy == F32Sub(y, F32FromNat(y0))
        dx == F32Sub(x, F32FromNat(x0))
        one_minus_dx == F32Sub(F32One, dx)
        one_minus_dy == F32Sub(F32One, dy)
    IN  IF y0 >= height \/ x0 >= width THEN Panic
        ELSE
            LET v00 == F32FromNat(slice.at[y0][x0])
                v01 == F32FromNat(slice.at[y0][x1])
                v10 == F32FromNat(slice.at[y1][x0])
                v11 == F32FromNat(slice.at[y1][x1])
                v0 == F32MulAdd(v00, dx, F32Mul(v01, one_minus_dx))
                v1 == F32MulAdd(v10, dx, F32Mul(v11, one_minus_dx))
            IN  [kind |-> "Value",
                 value |-> F32ToInt(F32MulAdd(v0, one_minus_dy, F32Mul(v1, dy)), 65535)]

\* A plane is [height, width, at], at[y][x] a u16 sample, y and x from 0.
\* The result is the u16 value, or Panic when slice[[y0, x0]] is out of bounds.
bilinear_interpolate(slice, y, x) ==
    LET height == slice.height
        width == slice.width
        y0 == F32Trunc(y)
        x0 == F32Trunc(x)
        y1 == Min(y0 + 1, height - 1)
        x1 == Min(x0 + 1, width - 1)
        dy == F32Sub(y, F32FromNat(y0))
        dx == F32Sub(x, F32FromNat(x0))
        one_minus_dx == F32Sub(F32One, dx)
        one_minus_dy == F32Sub(F32One, dy)
    IN  IF y0 >= height \/ x0 >= width THEN Panic
        ELSE
            LET v00 == F32FromNat(slice.at[y0][x0])
                v01 == F32FromNat(slice.at[y0][x1])
                v10 == F32FromNat(slice.at[y1][x0])
                v11 == F32FromNat(slice.at[y1][x1])
                v0 == F32MulAdd(v00, one_minus_dx, F32Mul(v01, dx))
                v1 == F32MulAdd(v10, one_minus_dx, F32Mul(v11, dx))
            IN  [kind |-> "Value",
                 value |-> F32ToInt(F32MulAdd(v0, one_minus_dy, F32Mul(v1, dy)), 65535)]

-----------------------------------------------------------------------------
(* volume.rs *)

VARIABLES
    data,               \* Volume.data: [dim |-> <<depth, height, width>>, at |-> voxels,
                        \*               contiguous |-> in standard layout]
    spacing,            \* Volume.spacing: <<x, y, z>> of f32
    interpolated_dim,   \* Volume.interpolated_dim: <<z, y, x>>
    gpu_interpolator,   \* Volume.gpu_interpolator: NoneValue or the GpuInterpolator
    call,               \* the request the caller made last
    ret                 \* what that request returned; Idle when nothing is held

vars == <<data, spacing, interpolated_dim, gpu_interpolator, call, ret>>

NoCall == [op |-> "none"]

normalize_to_u8(value) ==
    F32ToInt(F32Min(F32Mul(F32Div(F32FromNat(value), F32FromNat(65535)),
                           F32FromNat(255)),
                    F32FromNat(255)),
             255)

\* get_slice_from_axis with the Sagittal plane transposed: (height, depth).
get_slice_from_axis_transposed(d, index, orientation) ==
    LET depth == d.dim[1]
        height == d.dim[2]
        width == d.dim[3]
    IN  CASE orientation = "Axial" ->
               IF index >= depth THEN Panic
               ELSE [kind |-> "Slice", height |-> height, width |-> width,
                     at |-> [y \in 0..height - 1 |->
                               [x \in 0..width - 1 |-> d.at[index][y][x]]]]
          [] orientation = "Coronal" ->
               IF index >= height THEN Panic
               ELSE [kind |-> "Slice", height |-> depth, width |-> width,
                     at |-> [z \in 0..depth - 1 |->
                               [x \in 0..width - 1 |-> d.at[z][index][x]]]]
          [] orientation = "Sagittal" ->
               IF index >= width THEN Panic
               ELSE [kind |-> "Slice", height |-> height, width |-> depth,
                     at |-> [y \in 0..height - 1 |->
                               [z \in 0..depth - 1 |-> d.at[z][y][index]]]]

\* ndarray's data.slice(s![..]) panics on an index that is out of bounds.
get_slice_from_axis(d, index, orientation) ==
    LET depth == d.dim[1]
        height == d.dim[2]
        width == d.dim[3]
    IN  CASE orientation = "Axial" ->
               IF index >= depth THEN Panic
               ELSE [kind |-> "Slice", height |-> height, width |-> width,
                     at |-> [y \in 0..height - 1 |->
                               [x \in 0..width - 1 |-> d.at[index][y][x]]]]
          [] orientation = "Coronal" ->
               IF index >= height THEN Panic
               ELSE [kind |-> "Slice", height |-> depth, width |-> width,
                     at |-> [z \in 0..depth - 1 |->
                               [x \in 0..width - 1 |-> d.at[z][index][x]]]]
          [] orientation = "Sagittal" ->
               IF index >= width THEN Panic
               ELSE [kind |-> "Slice", height |-> depth, width |-> height,
                     at |-> [z \in 0..depth - 1 |->
                               [y \in 0..height - 1 |-> d.at[z][y][index]]]]

\* <<target_width, target_height>> of the CPU path
get_plane_spacing(idim, orientation) ==
    CASE orientation = "Axial" -> <<idim[2], idim[3]>>
      [] orientation = "Coronal" -> <<idim[2], idim[1]>>
      [] orientation = "Sagittal" -> <<idim[3], idim[1]>>

\* <<target_width, target_height>> of the GPU path
get_plane_spacing_gpu(idim, orientation) ==
    CASE orientation = "Axial" -> <<idim[3], idim[2]>>
      [] orientation = "Coronal" -> <<idim[3], idim[1]>>
      [] orientation = "Sagittal" -> <<idim[2], idim[1]>>

\* image::ImageBuffer::from_raw: None when the buffer is too short.
ImageFromRaw(width, height, pixel_data) ==
    IF width * height <= Len(pixel_data)
    THEN [kind |-> "Image", width |-> width, height |-> height,
          pixels |-> pixel_data]
    ELSE NoneValue

slice_to_image(slice) ==
    LET height == slice.height
        width == slice.width
        pixel_data == [i \in 1..height * width |->
                         normalize_to_u8(slice.at[(i - 1) \div width][(i - 1) % width])]
    IN  ImageFromRaw(width, height, pixel_data)

\* scale_x, scale_y of interpolate_slice
SourceScale(source_size, target_size) ==
    F32Div(F32FromNat(source_size - 1), F32FromNat(Max(target_size - 1, 1)))

\* src_x, src_y of interpolate_slice
SourceCoordinate(target_coord, scale) == F32Mul(F32FromNat(target_coord), scale)

\* (target - 1) underflows u32 for a zero target: the subtraction panics.
interpolate_slice(slice, target_width, target_height) ==
    IF target_width = 0 \/ target_height = 0 THEN Panic
    ELSE
        LET height == slice.height
            width == slice.width
            scale_x == SourceScale(width, target_width)
            scale_y == SourceScale(height, target_height)
            sampled == [i \in 1..target_height * target_width |->
                          LET row == (i - 1) \div target_width
                              col == (i - 1) % target_width
                              src_y == SourceCoordinate(row, scale_y)
                              src_x == SourceCoordinate(col, scale_x)
                          IN  bilinear_interpolate(slice, src_y, src_x)]
        IN  IF \E i \in DOMAIN sampled : sampled[i].kind = "Panic" THEN Panic
            ELSE ImageFromRaw(target_width, target_height,
                              [i \in DOMAIN sampled |->
                                 normalize_to_u8(sampled[i].value)])

\* is_valid_index off by one: index <= max_index.
is_valid_index_inclusive(d, index, orientation) ==
    LET max_index == CASE orientation = "Axial" -> d.dim[1]
                       [] orientation = "Coronal" -> d.dim[2]
                       [] orientation = "Sagittal" -> d.dim[3]
    IN  index <= max_index

is_valid_index(d, index, orientation) ==
    LET max_index == CASE orientation = "Axial" -> d.dim[1]
                       [] orientation = "Coronal" -> d.dim[2]
                       [] orientation = "Sagittal" -> d.dim[3]
    IN  index < max_index

\* get_image_from_axis without the Axial short-circuit of the Bilinear arm.
get_image_from_axis_axial_resampled(d, idim, index, orientation, interpolation) ==
    IF ~is_valid_index(d, index, orientation) THEN NoneValue
    ELSE
        LET slice == get_slice_from_axis(d, index, orientation)
        IN  IF slice.kind = "Panic" THEN Panic
            ELSE IF interpolation = "None" THEN slice_to_image(slice)
            ELSE LET target == get_plane_spacing(idim, orientation)
                 IN  interpolate_slice(slice, target[1], target[2])

get_image_from_axis(d, idim, index, orientation, interpolation) ==
    IF ~is_valid_index(d, index, orientation) THEN NoneValue
    ELSE
        LET slice == get_slice_from_axis(d, index, orientation)
        IN  IF slice.kind = "Panic" THEN Panic
            ELSE IF interpolation = "None" THEN slice_to_image(slice)
            ELSE IF orientation = "Axial" THEN slice_to_image(slice)
            ELSE LET target == get_plane_spacing(idim, orientation)
                 IN  interpolate_slice(slice, target[1], target[2])

-----------------------------------------------------------------------------
(* gpu_interpolator.rs *)

\* GpuInterpolator::new: the whole volume is uploaded once into the texture;
\* as_slice().expect(..) panics on an array that is not in standard layout.
GpuInterpolatorNew(d, sp) ==
    IF ~d.contiguous THEN Panic
    ELSE [kind |-> "GpuInterpolator", dimensions |-> d.dim, spacing |-> sp,
          volume_texture |-> d.at]

\* shaders/volume_slice.wgsl: the 32-bit lane written for output pixel (x, y).
\* The texel under the pixel's centre, in the orientation's axis order, scaled
\* to 8 bits.
VolumeSliceShader(gpu, slice_index, orientation, output_width, output_height, x, y) ==
    LET depth == gpu.dimensions[1]
        height == gpu.dimensions[2]
        width == gpu.dimensions[3]
        Centre(t, target, source) == Min(((2 * t + 1) * source) \div (2 * target),
                                         source - 1)
        \* AddressMode::ClampToEdge on all three axes
        Edge(i, source) == Min(i, source - 1)
        texel == CASE orientation = "Axial" ->
                        gpu.volume_texture[Edge(slice_index, depth)]
                            [Centre(y, output_height, height)]
                            [Centre(x, output_width, width)]
                   [] orientation = "Coronal" ->
                        gpu.volume_texture[Centre(y, output_height, depth)]
                            [Edge(slice_index, height)]
                            [Centre(x, output_width, width)]
                   [] orientation = "Sagittal" ->
                        gpu.volume_texture[Centre(y, output_height, depth)]
                            [Centre(x, output_width, height)]
                            [Edge(slice_index, width)]
    IN  texel \div 257

\* What the receiver of the map_async callback yields: Ok(Ok(())), Ok(Err(_))
\* when the mapping failed, Err(Canceled) when the sender was dropped unsent.
\* receiver.await.unwrap().unwrap() panics on the last two.
MapResults == {"Ok", "Err", "Canceled"}

\* The returned Vec<u8>: one byte per 32-bit lane of the staging buffer.
extract_slice(gpu, slice_index, orientation, target_width, target_height) ==
    LET output_size == target_width * target_height
    IN  [i \in 1..output_size |->
           VolumeSliceShader(gpu, slice_index, orientation, target_width,
                             target_height, (i - 1) % target_width,
                             (i - 1) \div target_width) % 256]

-----------------------------------------------------------------------------
(* The volumes and requests explored *)

MaxDim == 3
MaxIndex == 4

F32Half == <<P23, -24>>
F32Two == <<P23, -22>>

VolumeSpacings ==
    {<<F32One, F32One, F32One>>, <<F32One, F32One, F32Two>>,
     <<F32Half, F32One, F32One>>, <<F32Half, F32One, F32Two>>}

\* 0 gives samples that are multiples of 257, 60100 samples that are not
VoxelSeeds == {0, 60100}

Voxels(dims, seed) ==
    [dim |-> dims, contiguous |-> TRUE,
     at |-> [z \in 0..dims[1] - 1 |->
               [y \in 0..dims[2] - 1 |->
                  [x \in 0..dims[3] - 1 |->
                     (seed + 1285 * ((z * dims[2] + y) * dims[3] + x)) % 65536]]]]

\* Volume::new
VolumeNew(d, sp) ==
    /\ data = d
    /\ spacing = sp
    /\ interpolated_dim = get_isotropic_dimensions(sp, d.dim)
    /\ gpu_interpolator = NoneValue

Init ==
    /\ \E dims \in (1..MaxDim) \X (1..MaxDim) \X (1..MaxDim),
          seed \in VoxelSeeds, sp \in VolumeSpacings :
            VolumeNew(Voxels(dims, seed), sp)
    /\ call = NoCall
    /\ ret = Idle

Request(op, index, orientation, interpolation) ==
    [op |-> op, index |-> index, orientation |-> orientation,
     interpolation |-> interpolation]

GetSliceFromAxis(index, orientation) ==
    /\ ret = Idle
    /\ call' = Request("get_slice_from_axis", index, orientation, "None")
    /\ ret' = get_slice_from_axis(data, index, orientation)
    /\ UNCHANGED <<data, spacing, interpolated_dim, gpu_interpolator>>

GetImageFromAxis(index, orientation, interpolation) ==
    /\ ret = Idle
    /\ call' = Request("get_image_from_axis", index, orientation, interpolation)
    /\ ret' = get_image_from_axis(data, interpolated_dim, index, orientation,
                                  interpolation)
    /\ UNCHANGED <<data, spacing, interpolated_dim, gpu_interpolator>>

\* get_image_from_axis_gpu run to its return in one step; the device's part
\* is the result the map_async callback delivers.
GetImageFromAxisGpu(index, orientation) ==
    /\ ret = Idle
    /\ call' = Request("get_image_from_axis_gpu", index, orientation, "None")
    /\ IF ~is_valid_index(data, index, orientation)
       THEN /\ ret' = NoneValue
            /\ UNCHANGED gpu_interpolator
       ELSE LET gpu == IF gpu_interpolator = NoneValue
                       THEN GpuInterpolatorNew(data, spacing)
                       ELSE gpu_interpolator
                target == get_plane_spacing_gpu(interpolated_dim, orientation)
            IN  IF gpu.kind = "Panic"
                THEN /\ ret' = Panic
                     /\ UNCHANGED gpu_interpolator
                ELSE /\ gpu_interpolator' = gpu
                     /\ \E result \in MapResults :
                           ret' = IF result = "Ok"
                                  THEN ImageFromRaw(target[1], target[2],
                                                    extract_slice(gpu, index, orientation,
                                                                  target[1], target[2]))
                                  ELSE Panic
    /\ UNCHANGED <<data, spacing, interpolated_dim>>

\* The caller drops what the request returned; a panic has ended the program.
Release ==
    /\ ret # Idle
    /\ ret.kind # "Panic"
    /\ ret' = Idle
    /\ call' = NoCall
    /\ UNCHANGED <<data, spacing, interpolated_dim, gpu_interpolator>>

\* A request is made only while no returned value is held (ret = Idle).
Next ==
    \/ ret = Idle /\ \E index \in 0..MaxIndex, orientation \in Orientations :
                        GetSliceFromAxis(index, orientation)
    \/ ret = Idle /\ \E index \in 0..MaxIndex, orientation \in Orientations,
                        interpolation \in Interpolations :
                        GetImageFromAxis(index, orientation, interpolation)
    \/ ret = Idle /\ \E index \in 0..MaxIndex, orientation \in Orientations :
                        GetImageFromAxisGpu(index, orientation)
    \/ Release

Spec == Init /\ [][Next]_vars

-----------------------------------------------------------------------------
(* The pure functions of interpolator.rs, applied to drawn inputs *)

MaxIsoDim == 3
MaxPlane == 3
MaxCoordQ == 13

F32Three == <<3 * 2^22, -22>>
\* 0.7f32 = 0x3F333333 and 41.0f32
F32SevenTenths == <<11744051, -24>>
F32FortyOne == <<41 * 2^18, -18>>

IsoSpacingValues ==
    {F32Half, F32One, F32Two, F32Three, F32SevenTenths, F32FortyOne}

\* the dimensions of the unit tests of interpolator.rs, and one more
IsoExampleDims == {<<100, 200, 300>>, <<60, 120, 180>>, <<13, 26, 5>>}

\* <<first sample, step>> of a row-major ramp; <<1, 1>> on 3x3 is the grid 1..9
PlanePatterns == {<<1, 1>>, <<0, 2>>, <<42, 7>>, <<65527, 1>>}

Plane(height, width, pattern) ==
    [kind |-> "Slice", height |-> height, width |-> width,
     at |-> [y \in 0..height - 1 |->
               [x \in 0..width - 1 |->
                  (pattern[1] + pattern[2] * (y * width + x)) % 65536]]]

\* the f32 coordinate q / 4
Quarter(q) == F32Mul(F32FromNat(q), <<P23, -25>>)

\* Volume::default()
InitMath ==
    /\ data = [dim |-> <<0, 0, 0>>, contiguous |-> TRUE, at |-> << >>]
    /\ spacing = <<F32Zero, F32Zero, F32Zero>>
    /\ interpolated_dim = <<0, 0, 0>>
    /\ gpu_interpolator = NoneValue
    /\ call = NoCall
    /\ ret = Idle

GetIsotropicDimensions(sp, original_dim) ==
    /\ ret = Idle
    /\ call' = [op |-> "get_isotropic_dimensions", spacing |-> sp,
                original_dim |-> original_dim]
    /\ ret' = [kind |-> "Dim", value |-> get_isotropic_dimensions(sp, original_dim)]
    /\ UNCHANGED <<data, spacing, interpolated_dim, gpu_interpolator>>

BilinearInterpolate(slice, yq, xq) ==
    /\ ret = Idle
    /\ call' = [op |-> "bilinear_interpolate", slice |-> slice, yq |-> yq, xq |-> xq]
    /\ ret' = bilinear_interpolate(slice, Quarter(yq), Quarter(xq))
    /\ UNCHANGED <<data, spacing, interpolated_dim, gpu_interpolator>>

NextMath ==
    \/ ret = Idle /\
          \E sp \in IsoSpacingValues \X IsoSpacingValues \X IsoSpacingValues,
             original_dim \in ((1..MaxIsoDim) \X (1..MaxIsoDim) \X (1..MaxIsoDim))
                                 \cup IsoExampleDims :
             GetIsotropicDimensions(sp, original_dim)
    \/ ret = Idle /\
          \E height \in 1..MaxPlane, width \in 1..MaxPlane,
             pattern \in PlanePatterns, yq \in 0..MaxCoordQ, xq \in 0..MaxCoordQ :
             BilinearInterpolate(Plane(height, width, pattern), yq, xq)
    \/ Release

SpecMath == InitMath /\ [][NextMath]_vars

-----------------------------------------------------------------------------
(* get_image_from_axis_gpu and extract_slice step by step, beside the device *)

MaxGpuDim == 2

GpuSpacings == {<<F32One, F32One, F32One>>, <<F32One, F32One, F32Two>>}

\* the cell an owner writes through data_mut, and the samples written
MutatedCells == {<<0, 0, 0>>}
MutatedSamples == {257, 65535}

\* the caller's steps inside extract_slice, in the order of the code
ExtractSliceSteps ==
    <<"dispatch", "copy", "submit", "map_async", "poll", "await", "read", "unmap">>

\* Volume::new on an array in standard layout or not: an owned array that
\* was permuted or sliced with a step is not, unless it has a single element.
InitGpu ==
    /\ \E dims \in (1..MaxGpuDim) \X (1..MaxGpuDim) \X (1..MaxGpuDim),
          sp \in GpuSpacings, contiguous \in BOOLEAN :
            /\ dims = <<1, 1, 1>> => contiguous
            /\ VolumeNew([Voxels(dims, 0) EXCEPT !.contiguous = contiguous], sp)
    /\ call = NoCall
    /\ ret = Idle

\* extract_slice up to the command encoder: uniforms, and the output and the
\* staging buffer of output_size 32-bit lanes, which wgpu creates zeroed.
ExtractSliceCall(slice_index, orientation, target_width, target_height) ==
    LET output_size == target_width * target_height
    IN  [kind |-> "ExtractSlice", pc |-> "dispatch",
         slice_index |-> slice_index, orientation |-> orientation,
         target_width |-> target_width, target_height |-> target_height,
         encoder |-> << >>, queue |-> << >>,
         output_buffer |-> [i \in 1..output_size |-> 0],
         staging_buffer |-> [i \in 1..output_size |-> 0],
         map_state |-> "Unmapped", receiver |-> "Empty",
         result |-> << >>, steps |-> << >>]

InFlight(pc) == ret.kind = "ExtractSlice" /\ ret.pc = pc

\* get_image_from_axis_gpu constructing a new GpuInterpolator on every request.
GetImageFromAxisGpuCall_constructing(index, orientation) ==
    /\ ret = Idle
    /\ call' = Request("get_image_from_axis_gpu", index, orientation, "None")
    /\ IF ~is_valid_index(data, index, orientation)
       THEN /\ ret' = NoneValue
            /\ UNCHANGED gpu_interpolator
       ELSE LET gpu == GpuInterpolatorNew(data, spacing)
                target == get_plane_spacing_gpu(interpolated_dim, orientation)
            IN  IF gpu.kind = "Panic"
                THEN /\ ret' = Panic
                     /\ UNCHANGED gpu_interpolator
                ELSE /\ gpu_interpolator' = gpu
                     /\ ret' = ExtractSliceCall(index, orientation,
                                                target[1], target[2])
    /\ UNCHANGED <<data, spacing, interpolated_dim>>

\* get_image_from_axis_gpu initializing the interpolator before it tests the
\* index.
GetImageFromAxisGpuCall_initializing_first(index, orientation) ==
    LET gpu == IF gpu_interpolator = NoneValue
               THEN GpuInterpolatorNew(data, spacing)
               ELSE gpu_interpolator
        target == get_plane_spacing_gpu(interpolated_dim, orientation)
    IN  /\ ret = Idle
        /\ call' = Request("get_image_from_axis_gpu", index, orientation, "None")
        /\ IF gpu.kind = "Panic"
           THEN /\ ret' = Panic
                /\ UNCHANGED gpu_interpolator
           ELSE /\ gpu_interpolator' = gpu
                /\ ret' = IF ~is_valid_index(data, index, orientation)
                          THEN NoneValue
                          ELSE ExtractSliceCall(index, orientation,
                                                target[1], target[2])
        /\ UNCHANGED <<data, spacing, interpolated_dim>>

\* get_image_from_axis_gpu up to the call of extract_slice: the index test,
\* the lazy construction of the interpolator, the target size.
GetImageFromAxisGpuCall(index, orientation) ==
    /\ ret = Idle
    /\ call' = Request("get_image_from_axis_gpu", index, orientation, "None")
    /\ IF ~is_valid_index(data, index, orientation)
       THEN /\ ret' = NoneValue
            /\ UNCHANGED gpu_interpolator
       ELSE LET gpu == IF gpu_interpolator = NoneValue
                       THEN GpuInterpolatorNew(data, spacing)
                       ELSE gpu_interpolator
                target == get_plane_spacing_gpu(interpolated_dim, orientation)
            IN  IF gpu.kind = "Panic"
                THEN /\ ret' = Panic
                     /\ UNCHANGED gpu_interpolator
                ELSE /\ gpu_interpolator' = gpu
                     /\ ret' = ExtractSliceCall(index, orientation,
                                                target[1], target[2])
    /\ UNCHANGED <<data, spacing, interpolated_dim>>

\* compute_pass.dispatch_workgroups recorded into the encoder
ExtractSliceDispatch ==
    /\ InFlight("dispatch")
    /\ ret' = [ret EXCEPT !.pc = "copy", !.steps = Append(@, "dispatch"),
                          !.encoder = Append(@, "dispatch")]
    /\ UNCHANGED <<data, spacing, interpolated_dim, gpu_interpolator, call>>

\* encoder.copy_buffer_to_buffer(output_buffer -> staging_buffer)
ExtractSliceCopy ==
    /\ InFlight("copy")
    /\ ret' = [ret EXCEPT !.pc = "submit", !.steps = Append(@, "copy"),
                          !.encoder = Append(@, "copy")]
    /\ UNCHANGED <<data, spacing, interpolated_dim, gpu_interpolator, call>>

\* queue.submit(Some(encoder.finish()))
ExtractSliceSubmit ==
    /\ InFlight("submit")
    /\ ret' = [ret EXCEPT !.pc = "map_async", !.steps = Append(@, "submit"),
                          !.queue = ret.encoder]
    /\ UNCHANGED <<data, spacing, interpolated_dim, gpu_interpolator, call>>

\* buffer_slice.map_async(MapMode::Read, callback sending into the channel)
ExtractSliceMapAsync ==
    /\ InFlight("map_async")
    /\ ret' = [ret EXCEPT !.pc = "poll", !.steps = Append(@, "map_async"),
                          !.map_state = "Pending"]
    /\ UNCHANGED <<data, spacing, interpolated_dim, gpu_interpolator, call>>

\* let _ = device.poll(Wait): its result is dropped; it returns at once where
\* polling is a no-op (the web) and after the device's work elsewhere.
ExtractSlicePoll ==
    /\ InFlight("poll")
    /\ ret' = [ret EXCEPT !.pc = "await", !.steps = Append(@, "poll")]
    /\ UNCHANGED <<data, spacing, interpolated_dim, gpu_interpolator, call>>

\* receiver.await resolving although nothing was sent.
ExtractSliceAwait_unblocked ==
    /\ InFlight("await")
    /\ ret' = IF ret.receiver \in {"Ok", "Empty"}
              THEN [ret EXCEPT !.pc = "read", !.steps = Append(@, "await")]
              ELSE Panic
    /\ UNCHANGED <<data, spacing, interpolated_dim, gpu_interpolator, call>>

\* receiver.await.unwrap().unwrap(): suspended until the channel resolves
ExtractSliceAwait ==
    /\ InFlight("await")
    /\ ret.receiver # "Empty"
    /\ ret' = IF ret.receiver = "Ok"
              THEN [ret EXCEPT !.pc = "read", !.steps = Append(@, "await")]
              ELSE Panic
    /\ UNCHANGED <<data, spacing, interpolated_dim, gpu_interpolator, call>>

\* get_mapped_range (panics on a buffer that is not mapped), and one u8 per
\* u32 lane: v as u8.
ExtractSliceRead ==
    /\ InFlight("read")
    /\ ret' = IF ret.map_state # "Mapped" THEN Panic
              ELSE [ret EXCEPT !.pc = "unmap", !.steps = Append(@, "read"),
                               !.result = [i \in DOMAIN ret.staging_buffer |->
                                             ret.staging_buffer[i] % 256]]
    /\ UNCHANGED <<data, spacing, interpolated_dim, gpu_interpolator, call>>

\* drop(data); staging_buffer.unmap()
ExtractSliceUnmap ==
    /\ InFlight("unmap")
    /\ ret' = [ret EXCEPT !.pc = "return", !.steps = Append(@, "unmap"),
                          !.map_state = "Unmapped"]
    /\ UNCHANGED <<data, spacing, interpolated_dim, gpu_interpolator, call>>

\* extract_slice returns result; ImageBuffer::from_raw; the request returns
GetImageFromAxisGpuReturn ==
    /\ InFlight("return")
    /\ ret' = ImageFromRaw(ret.target_width, ret.target_height, ret.result)
    /\ UNCHANGED <<data, spacing, interpolated_dim, gpu_interpolator, call>>

\* The device runs the next submitted command: the compute pass writes one
\* lane per output pixel, the copy moves the output buffer to the staging one.
DeviceExecute ==
    /\ ret.kind = "ExtractSlice"
    /\ ret.queue # << >>
    /\ LET command == Head(ret.queue)
           lanes == [i \in DOMAIN ret.output_buffer |->
                       VolumeSliceShader(gpu_interpolator, ret.slice_index,
                                         ret.orientation, ret.target_width,
                                         ret.target_height,
                                         (i - 1) % ret.target_width,
                                         (i - 1) \div ret.target_width)]
       IN  ret' = [ret EXCEPT
                     !.queue = Tail(@),
                     !.output_buffer = IF command = "dispatch" THEN lanes ELSE @,
                     !.staging_buffer = IF command = "copy"
                                        THEN ret.output_buffer ELSE @]
    /\ UNCHANGED <<data, spacing, interpolated_dim, gpu_interpolator, call>>

\* The device resolves the pending mapping: it maps the buffer once the
\* submitted work is done and calls back with Ok, or it fails the mapping
\* (Err), or it drops the callback uncalled (Canceled).
DeviceMapCallback(result) ==
    /\ ret.kind = "ExtractSlice"
    /\ ret.map_state = "Pending"
    /\ ret.receiver = "Empty"
    /\ result = "Ok" => ret.queue = << >>
    /\ ret' = [ret EXCEPT !.receiver = result,
                          !.map_state = IF result = "Ok" THEN "Mapped" ELSE @]
    /\ UNCHANGED <<data, spacing, interpolated_dim, gpu_interpolator, call>>

\* data_mut that also drops the GPU interpolator.
DataMut_invalidating(cell, value) ==
    /\ ret = Idle
    /\ data' = [data EXCEPT !.at[cell[1]][cell[2]][cell[3]] = value]
    /\ call' = [op |-> "data_mut", cell |-> cell, value |-> value]
    /\ gpu_interpolator' = NoneValue
    /\ UNCHANGED <<spacing, interpolated_dim, ret>>

\* data_mut, and a sample written through the reference it returns
DataMut(cell, value) ==
    /\ ret = Idle
    /\ data' = [data EXCEPT !.at[cell[1]][cell[2]][cell[3]] = value]
    /\ call' = [op |-> "data_mut", cell |-> cell, value |-> value]
    /\ UNCHANGED <<spacing, interpolated_dim, gpu_interpolator, ret>>

NextGpu ==
    \/ ret = Idle /\ \E index \in 0..MaxGpuDim, orientation \in Orientations :
                        GetSliceFromAxis(index, orientation)
    \/ ret = Idle /\ \E index \in 0..MaxGpuDim, orientation \in Orientations,
                        interpolation \in Interpolations :
                        GetImageFromAxis(index, orientation, interpolation)
    \/ ret = Idle /\ \E index \in 0..MaxGpuDim, orientation \in Orientations :
                        GetImageFromAxisGpuCall(index, orientation)
    \/ ret = Idle /\ \E cell \in MutatedCells, value \in MutatedSamples :
                        DataMut(cell, value)
    \/ ExtractSliceDispatch
    \/ ExtractSliceCopy
    \/ ExtractSliceSubmit
    \/ ExtractSliceMapAsync
    \/ ExtractSlicePoll
    \/ ExtractSliceAwait
    \/ ExtractSliceRead
    \/ ExtractSliceUnmap
    \/ GetImageFromAxisGpuReturn
    \/ DeviceExecute
    \/ \E result \in MapResults : DeviceMapCallback(result)
    \/ Release

SpecGpu == InitGpu /\ [][NextGpu]_vars

-----------------------------------------------------------------------------
(* The parallel iterators of slice_to_image and interpolate_slice: rayon runs
   the items in jobs of adjacent items, on any thread and in any order, and
   collect() joins the jobs' outputs in the order of the items. *)

MaxParDim == 2
MaxJobs == 2

InitPar ==
    /\ \E dims \in (1..MaxParDim) \X (1..MaxParDim) \X (1..MaxParDim),
          sp \in VolumeSpacings :
            VolumeNew(Voxels(dims, 0), sp)
    /\ call = NoCall
    /\ ret = Idle

\* the items of one job when item_count items are split into job_count jobs
JobItems(item_count, job_count, job) ==
    (((job - 1) * item_count) \div job_count + 1)..((job * item_count) \div job_count)

\* the closure of slice_to_image applied to the item-th sample (from 1)
SliceToImageItem(slice, item) ==
    normalize_to_u8(slice.at[(item - 1) \div slice.width][(item - 1) % slice.width])

\* the inner closure of interpolate_slice: one sample of one row
InterpolateSliceItem(slice, target_width, target_height, row, col) ==
    LET scale_x == SourceScale(slice.width, target_width)
        scale_y == SourceScale(slice.height, target_height)
    IN  bilinear_interpolate(slice, SourceCoordinate(row, scale_y),
                             SourceCoordinate(col, scale_x))

\* one job: its items' outputs in the order of the items (for a row, the
\* row's pixels from left to right); a panic of the closure is the job's panic
JobOutput(op, slice, target_width, target_height, items) ==
    LET first == CHOOSE i \in items : \A j \in items : i <= j
        count == Cardinality(items)
    IN  IF op = "slice_to_image"
        THEN [kind |-> "Chunk",
              pixels |-> [i \in 1..count |-> SliceToImageItem(slice, first + i - 1)]]
        ELSE LET sampled == [i \in 1..count * target_width |->
                               InterpolateSliceItem(
                                   slice, target_width, target_height,
                                   first - 1 + (i - 1) \div target_width,
                                   (i - 1) % target_width)]
             IN  IF \E i \in DOMAIN sampled : sampled[i].kind = "Panic" THEN Panic
                 ELSE [kind |-> "Chunk",
                       pixels |-> [i \in DOMAIN sampled |->
                                     normalize_to_u8(sampled[i].value)]]

\* the jobs' outputs joined in the order given
RECURSIVE JoinChunks(_, _)
JoinChunks(chunks, order) ==
    IF order = << >> THEN << >>
    ELSE chunks[Head(order)].pixels \o JoinChunks(chunks, Tail(order))

\* the parallel iterator started: no job has run
ParallelCall(op, width, height, item_count, job_count) ==
    [kind |-> "Parallel", op |-> op, width |-> width, height |-> height,
     item_count |-> item_count,
     chunks |-> [job \in 1..job_count |-> NoneValue],
     completed |-> << >>]

\* get_image_from_axis up to the parallel iterator of slice_to_image or of
\* interpolate_slice, split into job_count jobs
GetImageFromAxisCall(index, orientation, interpolation, job_count) ==
    /\ ret = Idle
    /\ call' = Request("get_image_from_axis", index, orientation, interpolation)
    /\ IF ~is_valid_index(data, index, orientation)
       THEN ret' = NoneValue
       ELSE LET slice == get_slice_from_axis(data, index, orientation)
                target == get_plane_spacing(interpolated_dim, orientation)
            IN  IF slice.kind = "Panic" THEN ret' = Panic
                ELSE IF interpolation = "None" \/ orientation = "Axial"
                THEN /\ job_count <= slice.height * slice.width
                     /\ ret' = ParallelCall("slice_to_image", slice.width,
                                            slice.height,
                                            slice.height * slice.width, job_count)
                ELSE IF target[1] = 0 \/ target[2] = 0 THEN ret' = Panic
                ELSE /\ job_count <= target[2]
                     /\ ret' = ParallelCall("interpolate_slice", target[1],
                                            target[2], target[2], job_count)
    /\ UNCHANGED <<data, spacing, interpolated_dim, gpu_interpolator>>

\* a worker thread runs one job that has not run yet
ParWorker(job) ==
    /\ ret.kind = "Parallel"
    /\ job \in DOMAIN ret.chunks
    /\ ret.chunks[job] = NoneValue
    /\ LET slice == get_slice_from_axis(data, call.index, call.orientation)
           items == JobItems(ret.item_count, Len(ret.chunks), job)
       IN  ret' = [ret EXCEPT
                     !.chunks[job] = JobOutput(ret.op, slice, ret.width,
                                               ret.height, items),
                     !.completed = Append(@, job)]
    /\ UNCHANGED <<data, spacing, interpolated_dim, gpu_interpolator, call>>

\* collect() joining the jobs' outputs in the order the jobs completed.
ParCollect_as_completed ==
    /\ ret.kind = "Parallel"
    /\ \A job \in DOMAIN ret.chunks : ret.chunks[job] # NoneValue
    /\ ret' = IF \E job \in DOMAIN ret.chunks : ret.chunks[job].kind = "Panic"
              THEN Panic
              ELSE ImageFromRaw(ret.width, ret.height,
                                JoinChunks(ret.chunks, ret.completed))
    /\ UNCHANGED <<data, spacing, interpolated_dim, gpu_interpolator, call>>

\* collect() once every job has run, then ImageBuffer::from_raw; a job's panic
\* is propagated to the caller
ParCollect ==
    /\ ret.kind = "Parallel"
    /\ \A job \in DOMAIN ret.chunks : ret.chunks[job] # NoneValue
    /\ ret' = IF \E job \in DOMAIN ret.chunks : ret.chunks[job].kind = "Panic"
              THEN Panic
              ELSE ImageFromRaw(ret.width, ret.height,
                                JoinChunks(ret.chunks,
                                           [job \in DOMAIN ret.chunks |-> job]))
    /\ UNCHANGED <<data, spacing, interpolated_dim, gpu_interpolator, call>>

NextPar ==
    \/ ret = Idle /\ \E index \in 0..MaxParDim, orientation \in Orientations,
                        interpolation \in Interpolations, job_count \in 1..MaxJobs :
                        GetImageFromAxisCall(index, orientation, interpolation,
                                             job_count)
    \/ \E job \in 1..MaxJobs : ParWorker(job)
    \/ ParCollect
    \/ Release

SpecPar == InitPar /\ [][NextPar]_vars

-----------------------------------------------------------------------------
(* volume_loader.rs *)

MaxObjects == 2

SortBys == {"ImagePositionPatient", "TablePosition", "InstanceNumber", "None"}

\* What a DICOM object holds for the loader.
\*   tag: the element sort_by reads. "Missing": absent (for ImagePositionPatient
\*        also not numeric); "NoValue": present without the value (fewer than
\*        three components, or not convertible); else the value.
\*   shape: <<height, width>> of the decoded image, or << >> when the pixel
\*        data does not decode.
\*   spacing_tags: "Missing" (PixelSpacing or SliceThickness absent),
\*        "Short" (PixelSpacing with one component), "Present".
ObjectTags ==
    {[kind |-> "Missing"], [kind |-> "NoValue"],
     [kind |-> "Value", value |-> 1], [kind |-> "Value", value |-> 2]}
ObjectShapes == {<< >>, <<1, 1>>, <<1, 2>>}
ObjectSpacingTags == {"Missing", "Short", "Present"}

ObjectKinds ==
    [tag : ObjectTags, shape : ObjectShapes, spacing_tags : ObjectSpacingTags]

\* the spacing the objects carry: PixelSpacing 1\1, SliceThickness 2
LoaderSpacing == <<F32One, F32One, F32Two>>

\* the decoded image of the object at a position of the input: its samples
\* tell the objects apart
ObjectImage(position, shape) ==
    [kind |-> "Slice", height |-> shape[1], width |-> shape[2],
     at |-> [y \in 0..shape[1] - 1 |->
               [x \in 0..shape[2] - 1 |-> 100 * position + y * shape[2] + x]]]

DicomObjects(kinds) ==
    [i \in DOMAIN kinds |-> [position |-> i, tag |-> kinds[i].tag,
                             shape |-> kinds[i].shape,
                             spacing_tags |-> kinds[i].spacing_tags]]

Err(error) == [kind |-> "Err", error |-> error]

\* Option<Option<f32>>: NoneValue, or Some of the order, itself an Option
get_sort_order(dicom_object, sort_by) ==
    IF sort_by = "None" THEN [kind |-> "Some", order |-> [kind |-> "Some", value |-> 0]]
    ELSE IF dicom_object.tag.kind = "Missing" THEN NoneValue
    ELSE IF dicom_object.tag.kind = "NoValue"
    THEN [kind |-> "Some", order |-> NoneValue]
    ELSE [kind |-> "Some",
          order |-> [kind |-> "Some", value |-> dicom_object.tag.value]]

decode_image(dicom_object) ==
    IF dicom_object.shape = << >> THEN NoneValue
    ELSE ObjectImage(dicom_object.position, dicom_object.shape)

\* the order is read first; the image is decoded only when there is one
extract_image_with_order(dicom_object, sort_by) ==
    LET order == get_sort_order(dicom_object, sort_by)
    IN  IF order = NoneValue THEN NoneValue
        ELSE LET image_2d == decode_image(dicom_object)
             IN  IF image_2d = NoneValue THEN NoneValue
                 ELSE [kind |-> "Some", order |-> order.order, image |-> image_2d]

\* Option<f32>::partial_cmp is Less: None before Some, Some by value
OrderLess(a, b) ==
    \/ a.kind = "None" /\ b.kind = "Some"
    \/ a.kind = "Some" /\ b.kind = "Some" /\ a.value < b.value

\* slice::sort_by is stable: equal elements keep their order
StableSort(images_with_order) ==
    LET n == Len(images_with_order)
        Before(i, j) ==
            \/ OrderLess(images_with_order[i].order, images_with_order[j].order)
            \/ /\ ~OrderLess(images_with_order[j].order, images_with_order[i].order)
               /\ i < j
        Rank(i) == Cardinality({j \in 1..n : Before(j, i)}) + 1
    IN  [r \in 1..n |-> images_with_order[CHOOSE i \in 1..n : Rank(i) = r]]

Reverse(seq) == [r \in 1..Len(seq) |-> seq[Len(seq) + 1 - r]]

\* sort_images without the reversal for ImagePositionPatient.
sort_images_ascending(images_with_order, sort_by) ==
    IF sort_by # "None" THEN StableSort(images_with_order) ELSE images_with_order

sort_images(images_with_order, sort_by) ==
    LET sorted == IF sort_by # "None" THEN StableSort(images_with_order)
                  ELSE images_with_order
    IN  IF sort_by = "ImagePositionPatient" THEN Reverse(sorted) ELSE sorted

\* TRUE for Ok(()), FALSE for Err(InconsistentDimensions)
validate_dimensions(images) ==
    LET first_dim == <<images[1].height, images[1].width>>
    IN  ~\E i \in DOMAIN images : <<images[i].height, images[i].width>> # first_dim

build_volume_array(images) ==
    LET height == images[1].height
        width == images[1].width
        depth == Len(images)
    IN  [dim |-> <<depth, height, width>>, contiguous |-> TRUE,
         at |-> [i \in 0..depth - 1 |-> images[i + 1].at]]

\* find_map over all the objects: the first one with both elements;
\* pixel_spacing[1] panics on a PixelSpacing of one component
get_spacing(dicom_objects) ==
    LET found == {i \in DOMAIN dicom_objects :
                     dicom_objects[i].spacing_tags # "Missing"}
        first == CHOOSE i \in found : \A j \in found : i <= j
    IN  IF found = {} THEN NoneValue
        ELSE IF dicom_objects[first].spacing_tags = "Short" THEN Panic
        ELSE [kind |-> "Some", value |-> LoaderSpacing]

\* Result<Volume, VolumeLoaderError>, or a panic
load_from_dicom_objects(dicom_objects, sort_by) ==
    LET extracted == [i \in DOMAIN dicom_objects |->
                        extract_image_with_order(dicom_objects[i], sort_by)]
        Accepted(x) == x # NoneValue
        images_with_order == SelectSeq(extracted, Accepted)
        sorted == sort_images(images_with_order, sort_by)
        images == [i \in DOMAIN sorted |-> sorted[i].image]
    IN  IF images_with_order = << >> THEN Err("NoValidImages")
        ELSE IF ~validate_dimensions(images) THEN Err("InconsistentDimensions")
        ELSE LET sp == get_spacing(dicom_objects)
             IN  IF sp = NoneValue THEN Err("MissingSpacing")
                 ELSE IF sp = Panic THEN Panic
                 ELSE [kind |-> "Ok", data |-> build_volume_array(images),
                       spacing |-> sp.value]

\* no Volume has been constructed: the variables hold Volume::default()
NoVolume == data.dim = <<0, 0, 0>>

InitLoad == InitMath

\* the caller keeps the Volume of Ok(volume)
Loaded(result) ==
    IF result.kind = "Ok"
    THEN /\ data' = result.data
         /\ spacing' = result.spacing
         /\ interpolated_dim' = get_isotropic_dimensions(result.spacing,
                                                         result.data.dim)
         /\ gpu_interpolator' = NoneValue
         /\ ret' = [kind |-> "Ok"]
    ELSE /\ ret' = result
         /\ UNCHANGED <<data, spacing, interpolated_dim, gpu_interpolator>>

LoadFromDicomObjects(kinds, sort_by) ==
    /\ ret = Idle
    /\ NoVolume
    /\ call' = [op |-> "load_from_dicom_objects", objects |-> DicomObjects(kinds),
                sort_by |-> sort_by]
    /\ Loaded(load_from_dicom_objects(DicomObjects(kinds), sort_by))

\* the files of a directory: extension .dcm or not, readable by open_file or not
DirectoryEntries ==
    [dcm : BOOLEAN, opens : BOOLEAN,
     kind : {[tag |-> [kind |-> "Value", value |-> 1], shape |-> <<1, 1>>,
              spacing_tags |-> "Present"],
             [tag |-> [kind |-> "Missing"], shape |-> <<1, 1>>,
              spacing_tags |-> "Present"]}]

\* open_file on every path; the first error is returned as Dicom(_)
load_from_file_paths(paths, sort_by) ==
    IF \E i \in DOMAIN paths : ~paths[i].opens THEN Err("Dicom")
    ELSE load_from_dicom_objects(DicomObjects([i \in DOMAIN paths |-> paths[i].kind]),
                                 sort_by)

\* read_dir (an error is returned as Io(_)), the entries with extension dcm
load_from_directory(readable, entries, sort_by) ==
    LET IsDcm(entry) == entry.dcm
        paths == SelectSeq(entries, IsDcm)
    IN  IF ~readable THEN Err("Io")
        ELSE IF paths = << >> THEN Err("NoValidImages")
        ELSE load_from_file_paths(paths, sort_by)

LoadFromDirectory(readable, entries, sort_by) ==
    /\ ret = Idle
    /\ NoVolume
    /\ call' = [op |-> "load_from_directory", readable |-> readable,
                entries |-> entries, sort_by |-> sort_by]
    /\ Loaded(load_from_directory(readable, entries, sort_by))

NextLoad ==
    \/ ret = Idle /\ \E n \in 0..MaxObjects :
                        \E kinds \in [1..n -> ObjectKinds], sort_by \in SortBys :
                            LoadFromDicomObjects(kinds, sort_by)
    \/ ret = Idle /\ \E n \in 0..MaxObjects :
                        \E entries \in [1..n -> DirectoryEntries],
                           readable \in BOOLEAN, sort_by \in SortBys :
                            LoadFromDirectory(readable, entries, sort_by)
    \/ Release

SpecLoad == InitLoad /\ [][NextLoad]_vars

-----------------------------------------------------------------------------
(* Properties *)

\* the extent of the axis an orientation holds fixed
FixedAxisExtent(dims, orientation) ==
    CASE orientation = "Axial" -> dims[1]
      [] orientation = "Coronal" -> dims[2]
      [] orientation = "Sagittal" -> dims[3]

ImageRequest == call.op \in {"get_image_from_axis", "get_image_from_axis_gpu"}

Abs(n) == IF n < 0 THEN 0 - n ELSE n

\* C1: an image request (CPU or GPU) whose index is at or beyond the extent
\* of the axis its orientation fixes returns None: a failure value, no image.
C1_ImageIndexOutOfRange ==
    (ImageRequest /\ call.index >= FixedAxisExtent(data.dim, call.orientation))
        => ret.kind = "None"

C1_Witness ==
    /\ call.op = "get_image_from_axis_gpu"
    /\ call.orientation = "Sagittal"
    /\ call.index = data.dim[3]
    /\ ret.kind = "None"

\* C2: for a valid index get_slice_from_axis returns the plane with the
\* selected axis fixed at the index and the other two axes in natural order:
\* Axial (height, width), Coronal (depth, width), Sagittal (depth, height).
C2_SlicePlane ==
    (call.op = "get_slice_from_axis"
        /\ call.index < FixedAxisExtent(data.dim, call.orientation))
        => LET i == call.index
               depth == data.dim[1]
               height == data.dim[2]
               width == data.dim[3]
           IN  /\ ret.kind = "Slice"
               /\ call.orientation = "Axial" =>
                    /\ ret.height = height /\ ret.width = width
                    /\ \A y \in 0..height - 1, x \in 0..width - 1 :
                          ret.at[y][x] = data.at[i][y][x]
               /\ call.orientation = "Coronal" =>
                    /\ ret.height = depth /\ ret.width = width
                    /\ \A z \in 0..depth - 1, x \in 0..width - 1 :
                          ret.at[z][x] = data.at[z][i][x]
               /\ call.orientation = "Sagittal" =>
                    /\ ret.height = depth /\ ret.width = height
                    /\ \A z \in 0..depth - 1, y \in 0..height - 1 :
                          ret.at[z][y] = data.at[z][y][i]

C2_Witness ==
    /\ call.op = "get_slice_from_axis"
    /\ call.orientation = "Sagittal"
    /\ data.dim = <<2, 3, 2>>
    /\ call.index = 1
    /\ ret.kind = "Slice"
    /\ ret.height = 2 /\ ret.width = 3

\* C3: get_slice_from_axis called with an index at or beyond the fixed axis
\* returns a failure value (None); it does not abort and returns no plane.
C3_SliceIndexOutOfRangeIsValue ==
    (call.op = "get_slice_from_axis"
        /\ call.index >= FixedAxisExtent(data.dim, call.orientation))
        => ret.kind = "None"

\* C4: with isotropic spacing (1, 1, 1) the CPU bilinear image of a Coronal or
\* Sagittal plane has the width, the height and (within one 8-bit step) the
\* pixels of the non-interpolated normalized image of that plane.
C4_IsotropicIdentity ==
    (call.op = "get_image_from_axis" /\ call.interpolation = "Bilinear"
        /\ call.orientation \in {"Coronal", "Sagittal"}
        /\ spacing = <<F32One, F32One, F32One>>
        /\ call.index < FixedAxisExtent(data.dim, call.orientation))
        => LET raw == slice_to_image(
                          get_slice_from_axis(data, call.index, call.orientation))
           IN  /\ ret.kind = "Image"
               /\ ret.width = raw.width
               /\ ret.height = raw.height
               /\ \A i \in 1..Len(raw.pixels) :
                     Abs(ret.pixels[i] - raw.pixels[i]) <= 1

\* C5: for the same volume, valid index and orientation the GPU image and
\* the CPU bilinear image have equal width and equal height.
C5_CpuGpuSameSize ==
    (call.op = "get_image_from_axis_gpu"
        /\ call.index < FixedAxisExtent(data.dim, call.orientation))
        => LET cpu == get_image_from_axis(data, interpolated_dim, call.index,
                                          call.orientation, "Bilinear")
           IN  /\ ret.kind = "Image"
               /\ cpu.kind = "Image"
               /\ ret.width = cpu.width
               /\ ret.height = cpu.height

\* C6: Axial with Bilinear never resizes: the image has the raw axial plane's
\* width and height (volume width x volume height) whatever the spacing, and
\* is the same image as with interpolation None.
C6_AxialBilinearIsRaw ==
    (call.op = "get_image_from_axis" /\ call.interpolation = "Bilinear"
        /\ call.orientation = "Axial" /\ call.index < data.dim[1])
        => /\ ret.kind = "Image"
           /\ ret.width = data.dim[3]
           /\ ret.height = data.dim[2]
           /\ Len(ret.pixels) = data.dim[2] * data.dim[3]
           /\ ret = get_image_from_axis(data, interpolated_dim, call.index,
                                        "Axial", "None")

C6_Witness ==
    /\ call.op = "get_image_from_axis" /\ call.interpolation = "Bilinear"
    /\ call.orientation = "Axial"
    /\ spacing = <<F32Half, F32One, F32One>>
    /\ data.dim = <<1, 2, 3>>
    /\ interpolated_dim = <<2, 4, 3>>
    /\ ret.kind = "Image" /\ ret.width = 3 /\ ret.height = 2

\* C7: get_isotropic_dimensions returns, on every axis, at least the original
\* extent, and exactly the original extent on every axis whose spacing is the
\* minimum spacing.
C7_IsotropicAtLeastOriginal ==
    call.op = "get_isotropic_dimensions"
        => LET sp == call.spacing
               min_spacing == F32Min(F32Min(sp[1], sp[2]), sp[3])
           IN  \A axis \in 1..3 :
                  /\ ret.value[axis] >= call.original_dim[axis]
                  /\ sp[4 - axis] = min_spacing
                        => ret.value[axis] = call.original_dim[axis]

\* C8: at an integer coordinate inside the plane bilinear_interpolate returns
\* exactly the sample of that cell.
C8_IntegerCoordinateExact ==
    (call.op = "bilinear_interpolate"
        /\ call.yq % 4 = 0 /\ call.xq % 4 = 0
        /\ call.yq \div 4 < call.slice.height
        /\ call.xq \div 4 < call.slice.width)
        => /\ ret.kind = "Value"
           /\ ret.value = call.slice.at[call.yq \div 4][call.xq \div 4]

C8_Witness ==
    /\ call.op = "bilinear_interpolate"
    /\ call.slice = Plane(3, 3, <<1, 1>>)
    /\ call.yq = 4 /\ call.xq = 4
    /\ ret.kind = "Value" /\ ret.value = 5

\* C9: at a coordinate inside the plane bilinear_interpolate returns the
\* bilinear blend (1-dy)*((1-dx)*v00 + dx*v01) + dy*((1-dx)*v10 + dx*v11);
\* with coordinates in quarters, 16 times the result is the blend of the
\* quarter weights.
C9_FractionalBlend ==
    (call.op = "bilinear_interpolate"
        /\ call.yq <= 4 * (call.slice.height - 1)
        /\ call.xq <= 4 * (call.slice.width - 1))
        => LET y0 == call.yq \div 4
               x0 == call.xq \div 4
               y1 == Min(y0 + 1, call.slice.height - 1)
               x1 == Min(x0 + 1, call.slice.width - 1)
               dy == call.yq % 4
               dx == call.xq % 4
               at == call.slice.at
           IN  /\ ret.kind = "Value"
               /\ 16 * ret.value =
                    (4 - dy) * ((4 - dx) * at[y0][x0] + dx * at[y0][x1])
                        + dy * ((4 - dx) * at[y1][x0] + dx * at[y1][x1])

\* C10: bilinear_interpolate never fails on a coordinate beyond the plane, by
\* whatever amount: it uses only cells of the plane, and beyond the last row
\* and the last column it returns the sample of the last cell.
C10_OutOfRangeClamped ==
    call.op = "bilinear_interpolate"
        => /\ ret.kind = "Value"
           /\ (call.yq >= 4 * (call.slice.height - 1)
                 /\ call.xq >= 4 * (call.slice.width - 1))
                 => ret.value =
                      call.slice.at[call.slice.height - 1][call.slice.width - 1]

\* round(value / 65535 * 255), to the nearest integer
RoundToU8(value) == (2 * 255 * value + 65535) \div (2 * 65535)

\* C11: with interpolation None and a valid index the image has the raw
\* plane's width and height, and every pixel is the plane's sample scaled to
\* 8 bits with rounding to nearest: round(clamp(value / 65535 * 255, 0, 255)).
C11_NoneIsRoundedNormalization ==
    (call.op = "get_image_from_axis" /\ call.interpolation = "None"
        /\ call.index < FixedAxisExtent(data.dim, call.orientation))
        => LET slice == get_slice_from_axis(data, call.index, call.orientation)
           IN  /\ ret.kind = "Image"
               /\ ret.width = slice.width
               /\ ret.height = slice.height
               /\ Len(ret.pixels) = slice.height * slice.width
               /\ \A y \in 0..slice.height - 1, x \in 0..slice.width - 1 :
                     ret.pixels[y * slice.width + x + 1] = RoundToU8(slice.at[y][x])

\* floor(64 * src) of an f32 source coordinate
Sixtyfourths(src) == F32Trunc(F32Mul(src, F32FromNat(64)))

\* floor(64 * src) of the half-pixel-centre coordinate
\* src = (target_coord + 0.5) / target_size * source_size - 0.5,
\* clamped into [0, source_size - 1]
HalfPixelSixtyfourths(target_coord, target_size, source_size) ==
    LET numerator == (2 * target_coord + 1) * source_size - target_size
    IN  IF numerator <= 0 THEN 0
        ELSE Min((64 * numerator) \div (2 * target_size), 64 * (source_size - 1))

\* C12: interpolate_slice samples every target pixel at the half-pixel-centre
\* source coordinates src = (target_coord + 0.5) / target_size * source_size
\* - 0.5, clamped into [0, source_size - 1], on both axes.
C12_HalfPixelCentres ==
    (call.op = "get_image_from_axis" /\ call.interpolation = "Bilinear"
        /\ call.orientation \in {"Coronal", "Sagittal"}
        /\ call.index < FixedAxisExtent(data.dim, call.orientation)
        /\ ret.kind = "Image")
        => LET slice == get_slice_from_axis(data, call.index, call.orientation)
               scale_x == SourceScale(slice.width, ret.width)
               scale_y == SourceScale(slice.height, ret.height)
           IN  /\ \A col \in 0..ret.width - 1 :
                     Sixtyfourths(SourceCoordinate(col, scale_x))
                        = HalfPixelSixtyfourths(col, ret.width, slice.width)
               /\ \A row \in 0..ret.height - 1 :
                     Sixtyfourths(SourceCoordinate(row, scale_y))
                        = HalfPixelSixtyfourths(row, ret.height, slice.height)

C14_GpuFailureIsValue ==
    call.op = "get_image_from_axis_gpu" => ret.kind # "Panic"

\* C15: the parallel fan-out of slice_to_image and interpolate_slice is
\* deterministic: however the items are split into jobs and in whatever order
\* the jobs complete, every job's output depends on its own items only and
\* the image returned is the one the sequential row-major evaluation gives.
C15_ParallelIsSequential ==
    /\ ret.kind = "Parallel" =>
         \A job \in DOMAIN ret.chunks :
            ret.chunks[job] # NoneValue =>
               ret.chunks[job] =
                  JobOutput(ret.op,
                            get_slice_from_axis(data, call.index, call.orientation),
                            ret.width, ret.height,
                            JobItems(ret.item_count, Len(ret.chunks), job))
    /\ (call.op = "get_image_from_axis" /\ ret.kind \in {"Image", "None", "Panic"})
         => ret = get_image_from_axis(data, interpolated_dim, call.index,
                                      call.orientation, call.interpolation)

C15_Witness ==
    /\ ret.kind = "Parallel"
    /\ ret.op = "interpolate_slice"
    /\ ret.completed = <<2, 1>>
    /\ ret.width >= 2

\* the positions of the objects that have a sort key and a decodable image
AcceptedPositions(objects, sort_by) ==
    {i \in DOMAIN objects :
        /\ sort_by = "None" \/ objects[i].tag.kind # "Missing"
        /\ objects[i].shape # << >>}

\* the sort key as a number; a key without value sorts before every value
KeyOf(object, sort_by) ==
    IF sort_by = "None" THEN 0
    ELSE IF object.tag.kind = "NoValue" THEN -1
    ELSE object.tag.value

\* C16: the loader builds a Volume only from a non-empty sequence of
\* equal-shaped images. No object with a sort key and a decodable image (or a
\* directory without .dcm file): NoValidImages; two accepted images of
\* different shape: InconsistentDimensions; in both cases no Volume. On
\* success the depth is the number of accepted images and the planes are the
\* accepted images in sorted order (by key, ties in input order; reversed for
\* ImagePositionPatient; input order for SortBy::None).
C16_LoaderContract ==
    /\ call.op = "load_from_dicom_objects" =>
         LET objects == call.objects
             sort_by == call.sort_by
             accepted == AcceptedPositions(objects, sort_by)
             Source(p) == CHOOSE i \in accepted :
                             data.at[p] = ObjectImage(i, objects[i].shape).at
             Key(i) == KeyOf(objects[i], sort_by)
         IN  /\ accepted = {} => (ret = Err("NoValidImages") /\ NoVolume)
             /\ (\E i, j \in accepted : objects[i].shape # objects[j].shape)
                   => (ret = Err("InconsistentDimensions") /\ NoVolume)
             /\ ret.kind = "Ok" =>
                  /\ accepted # {}
                  /\ \A i, j \in accepted : objects[i].shape = objects[j].shape
                  /\ data.dim[1] = Cardinality(accepted)
                  /\ \A p \in 0..data.dim[1] - 1 :
                        \E i \in accepted :
                           data.at[p] = ObjectImage(i, objects[i].shape).at
                  /\ \A p, q \in 0..data.dim[1] - 1 :
                        p < q =>
                           LET a == Source(p)
                               b == Source(q)
                           IN  CASE sort_by = "None" -> a < b
                                 [] sort_by = "ImagePositionPatient" ->
                                      Key(a) > Key(b) \/ (Key(a) = Key(b) /\ a > b)
                                 [] OTHER ->
                                      Key(a) < Key(b) \/ (Key(a) = Key(b) /\ a < b)
    /\ call.op = "load_from_directory" =>
         /\ (call.readable /\ \A i \in DOMAIN call.entries : ~call.entries[i].dcm)
               => (ret = Err("NoValidImages") /\ NoVolume)
         /\ ret.kind # "Ok" => NoVolume

C16_Witness ==
    /\ call.op = "load_from_dicom_objects"
    /\ call.sort_by = "InstanceNumber"
    /\ ret.kind = "Ok"
    /\ data.dim = <<2, 1, 2>>
    /\ data.at[0][0][0] = 200
    /\ data.at[1][0][0] = 100

\* C17: there is no invalidation of the GPU texture. The texture is the voxel
\* data at the moment the interpolator is constructed; once it exists no
\* step, a write through data_mut included, changes or drops it; every GPU
\* image is the extraction from that texture, while every CPU image is
\* computed from the voxel data of the moment of the request.
C17_NoInvalidation ==
    [][/\ (gpu_interpolator = NoneValue /\ gpu_interpolator' # NoneValue)
            => gpu_interpolator'.volume_texture = data.at
       /\ gpu_interpolator # NoneValue
            => /\ gpu_interpolator' # NoneValue
               /\ gpu_interpolator'.volume_texture = gpu_interpolator.volume_texture
       /\ (ret.kind = "ExtractSlice" /\ ret'.kind = "Image")
            => ret'.pixels = extract_slice(gpu_interpolator, call.index,
                                           call.orientation, ret.target_width,
                                           ret.target_height)
       /\ (ret = Idle /\ call'.op = "get_image_from_axis")
            => ret' = get_image_from_axis(data, interpolated_dim, call'.index,
                                          call'.orientation,
                                          call'.interpolation)]_vars

\* a GPU image served from a texture that no longer equals the voxel data
C17_Witness ==
    /\ call.op = "get_image_from_axis_gpu"
    /\ ret.kind = "Image"
    /\ gpu_interpolator.volume_texture # data.at
    /\ ret.pixels # extract_slice(GpuInterpolatorNew(data, spacing), call.index,
                                  call.orientation, ret.width, ret.height)

\* C18: in every extract_slice the caller's steps are, in this order:
\* dispatch recorded, copy recorded, batch submitted, mapping requested, poll,
\* await of the mapping callback, read, unmap. The device does nothing before
\* the submission; the await completes only once the callback has signalled
\* Ok, so the read (and the return) never precede the signal; the buffer is
\* still mapped at the read and unmapped after it; the bytes returned are
\* target_width * target_height, each the low 8 bits of its 32-bit lane.
C18_ExtractSliceOrder ==
    /\ ret.kind = "ExtractSlice" =>
         LET done == Len(ret.steps)
             output_size == ret.target_width * ret.target_height
             lanes == [i \in 1..output_size |->
                         VolumeSliceShader(gpu_interpolator, ret.slice_index,
                                           ret.orientation, ret.target_width,
                                           ret.target_height,
                                           (i - 1) % ret.target_width,
                                           (i - 1) \div ret.target_width)]
         IN  /\ ret.steps = SubSeq(ExtractSliceSteps, 1, done)
             /\ done >= 3 => ret.encoder = <<"dispatch", "copy">>
             /\ done < 3 => /\ ret.queue = << >>
                            /\ ret.staging_buffer = [i \in 1..output_size |-> 0]
             /\ done < 4 => /\ ret.receiver = "Empty"
                            /\ ret.map_state = "Unmapped"
             /\ done >= 6 => /\ ret.receiver = "Ok"
                             /\ ret.queue = << >>
                             /\ ret.staging_buffer = lanes
             /\ done \in {6, 7} => ret.map_state = "Mapped"
             /\ done >= 7 => /\ Len(ret.result) = output_size
                             /\ \A i \in 1..output_size :
                                   ret.result[i] = lanes[i] % 256
             /\ done = 8 => ret.map_state = "Unmapped"
    /\ (call.op = "get_image_from_axis_gpu" /\ ret.kind = "Image") =>
         /\ Len(ret.pixels) = ret.width * ret.height
         /\ ret.pixels = extract_slice(gpu_interpolator, call.index,
                                       call.orientation, ret.width, ret.height)

C18_Witness ==
    /\ ret.kind = "ExtractSlice"
    /\ ret.pc = "return"
    /\ ret.steps = ExtractSliceSteps
    /\ Len(ret.result) = 4
    /\ ret.result[4] # 0

\* C19: the GPU context changes only in a GPU request with a valid index; a
\* GPU request with an index out of range returns None and leaves the context
\* as it was; every CPU request (get_slice_from_axis, get_image_from_axis)
\* leaves voxel data, spacing, isotropic dimensions and GPU context unchanged.
C19_Frame ==
    [][/\ gpu_interpolator' # gpu_interpolator
            => /\ ret = Idle
               /\ call'.op = "get_image_from_axis_gpu"
               /\ call'.index < FixedAxisExtent(data.dim, call'.orientation)
       /\ (ret = Idle /\ call'.op = "get_image_from_axis_gpu"
             /\ call'.index >= FixedAxisExtent(data.dim, call'.orientation))
            => /\ ret' = NoneValue
               /\ gpu_interpolator' = gpu_interpolator
       /\ (ret = Idle /\ call'.op \in {"get_slice_from_axis", "get_image_from_axis"})
            => UNCHANGED <<data, spacing, interpolated_dim, gpu_interpolator>>]_vars

C19_Witness ==
    /\ call.op = "get_image_from_axis_gpu"
    /\ call.index >= FixedAxisExtent(data.dim, call.orientation)
    /\ ret = NoneValue
    /\ gpu_interpolator = NoneValue
    /\ data.contiguous


=============================================================================
